---- MODULE Spec2Model ----
(***************************************************************************)
(* The UI controller of the Harvest + Hearth frontend (main.js): mobile    *)
(* menu, booking and checkout modals, the four form submit handlers, the   *)
(* contact POST, feedback timers and the product image fallback.           *)
(*                                                                         *)
(* JavaScript strings the code inspects character by character (trim,      *)
(* the email pattern, the price clean-up, URL comparison) are sequences of *)
(* one-character strings; literals that are only displayed are TLA+        *)
(* strings.  The em dash of the source literals is written "--".           *)
(***************************************************************************)
EXTENDS Naturals, Sequences, FiniteSets, TLC

\* ------------------------------------------------------------------ bounds
\* longest e-mail text drawn for the pattern check
MaxLen == 5
\* pending setTimeout callbacks
MaxTimers == 2
\* contact POSTs awaiting their response
MaxInFlight == 2
\* elements missing from the page in the degraded-DOM runs
MaxAbsent == 1
\* src assignments counted per image
MaxAssign == 3
\* [data-include] elements in the document
MaxIncludes == 3

\* ----------------------------------------------------------------- strings
Null == "null"      \* getAttribute() of a missing attribute

WhiteSpace == {" ", "\t", "\n"}
IsSpace(c) == c \in WhiteSpace

RECURSIVE TrimStart(_)
TrimStart(s) ==
  IF s # <<>> /\ IsSpace(Head(s)) THEN TrimStart(Tail(s)) ELSE s

RECURSIVE TrimEnd(_)
TrimEnd(s) ==
  IF s # <<>> /\ IsSpace(s[Len(s)]) THEN TrimEnd(SubSeq(s, 1, Len(s) - 1)) ELSE s

\* String.prototype.trim
Trim(s) == TrimEnd(TrimStart(s))

\* s[a..b] is a non-empty run of \S
NonSpaceRun(s, a, b) ==
  a <= b /\ \A k \in a..b : ~IsSpace(s[k])

\* /\S+@\S+\.\S+/.test(s): an unanchored search, so any start i; the first
\* \S+ ends at e, the '@' is at e+1, the second \S+ is e+2..f, the '.' is at
\* f+1 and one more \S at f+2 completes a match.
EmailTestDotUnescaped(s) ==
  \E i \in 1..Len(s) : \E e \in i..Len(s) : \E f \in e..Len(s) :
     /\ NonSpaceRun(s, i, e)
     /\ e + 1 <= Len(s) /\ s[e + 1] = "@"
     /\ NonSpaceRun(s, e + 2, f)
     /\ f + 1 <= Len(s) /\ s[f + 1] # "\n"
     /\ f + 2 <= Len(s) /\ ~IsSpace(s[f + 2])
EmailTest(s) ==
  \E i \in 1..Len(s) : \E e \in i..Len(s) : \E f \in e..Len(s) :
     /\ NonSpaceRun(s, i, e)
     /\ e + 1 <= Len(s) /\ s[e + 1] = "@"
     /\ NonSpaceRun(s, e + 2, f)
     /\ f + 1 <= Len(s) /\ s[f + 1] = "."
     /\ f + 2 <= Len(s) /\ ~IsSpace(s[f + 2])

\* a || b on strings: the empty string (like null and undefined) is falsy
Or(a, b) == IF a # <<>> THEN a ELSE b

\* String(b) of a boolean
String(b) == IF b THEN "true" ELSE "false"

Digits == {"0", "1", "2", "3", "4", "5", "6", "7", "8", "9"}
\* s.replace(/[^0-9.]/g, '')
StripNonNumeric(s) == SelectSeq(s, LAMBDA c : c \in Digits \cup {"."})

\* -------------------------------------------------------------------- page
Modals == {"bookingModal", "checkoutModal"}
Forms == {"bookingForm", "checkoutForm", "newsletterForm", "contactForm"}
FieldIds == {"bookingForm.name", "bookingForm.email", "bookingForm.date",
             "checkoutForm.checkoutName", "checkoutForm.checkoutEmail",
             "checkoutProductInput", "checkoutAmountInput",
             "newsletterEmail",
             "contactForm.name", "contactForm.email", "contactForm.message",
             "contactForm._honey"}
FeedbackEls == {"bookingFeedback", "checkoutFeedback", "contactFeedback"}
\* the descendants of a modal matching
\* 'button, [href], input, select, textarea, [tabindex]': Focusable(m) is the
\* first of them that can take the focus; Unfocusable(m) is one that cannot
\* (an input of type hidden, a disabled control) placed ahead of all others
Focusable(m) == IF m = "bookingModal" THEN "bookingModal.focusable"
                ELSE "checkoutModal.focusable"
Unfocusable(m) == IF m = "bookingModal" THEN "bookingModal.unfocusable"
                  ELSE "checkoutModal.unfocusable"
\* every element the controller looks up
Elements == {"mobileMenuBtn", "mobileMenu", "checkoutProductTitle",
             "checkoutProductPrice", ".book-btn", ".buy-btn"}
            \cup Modals \cup {Focusable(m) : m \in Modals}
            \cup {Unfocusable(m) : m \in Modals}
            \cup Forms \cup FieldIds \cup FeedbackEls

Product == <<"P", "r", "o", "d", "u", "c", "t">>
OliveOil == <<"O", "l", "i", "v", "e", " ", "O", "i", "l">>
SeaSalt == <<"S", "e", "a", " ", "S", "a", "l", "t">>
Honey == <<"H", "o", "n", "e", "y">>
\* the .buy-btn elements of the page: their data attributes and, for the
\* fall-back, the h3 and span text of the closest .product (empty: none)
BuyButtons ==
  { [id |-> "buy1", dataName |-> OliveOil, dataPrice |-> <<"2", "4", ".", "9", "9">>,
     h3 |-> OliveOil, span |-> <<"$", "2", "4", ".", "9", "9">>],
    [id |-> "buy2", dataName |-> SeaSalt, dataPrice |-> <<"9", ".", "5">>,
     h3 |-> <<>>, span |-> <<>>],
    [id |-> "buy3", dataName |-> <<>>, dataPrice |-> <<>>,
     h3 |-> Honey, span |-> <<"$", "1", "2", " ", "e", "a">>],
    [id |-> "buy4", dataName |-> <<>>, dataPrice |-> <<>>,
     h3 |-> <<>>, span |-> <<>>] }

Keys == {"Escape", "Enter", "Tab"}

VARIABLES
  boot,         \* page load: the DOMContentLoaded handler's position, each
                \* include element's fetch and content, the calls of initUI
                \* and the console.error log
  absent,       \* elements missing from the DOM (fixed once initUI has run)
  menu,         \* #mobileMenu: hidden class, and aria-expanded of #mobileMenuBtn
  modals,       \* per modal: hidden class and aria-hidden attribute
  focus,        \* the element the code last moved keyboard focus to
  titleText,    \* #checkoutProductTitle textContent
  priceText,    \* #checkoutProductPrice textContent
  fields,       \* value of every form control
  feedback,     \* per feedback element: hidden class, textContent, colour class
  timers,       \* pending setTimeout callbacks, in registration order
  alert,        \* the blocking alert() on screen and the handler it suspends
  net,          \* contact POSTs in flight
  uncaught,     \* the handlers that ended with an uncaught exception
  images,       \* per product image: src attribute, load state, assignments
  last,         \* history: the event listener (click, keydown, submit) that
                \* ran last, what it ran on, and whether the same one ran
                \* right before it
  before        \* history: menu, modals and checkout title before that listener

vars == <<boot, absent, menu, modals, focus, titleText, priceText, fields, feedback,
          timers, alert, net, uncaught, images, last, before>>
\* everything but the history variable
page == <<boot, absent, menu, modals, focus, titleText, priceText, fields, feedback,
          timers, alert, net, uncaught, images>>

Present(el) == el \notin absent

NoAlert == [msg |-> Null, resume |-> Null]
\* the listeners exist once initUI has run, and alert() blocks the UI thread:
\* no handler, timer or continuation runs until it is dismissed
Idle == boot.initUI > 0 /\ alert = NoAlert

Hist(op, arg) ==
  /\ last' = [op |-> op, arg |-> arg, twice |-> last.op = op /\ last.arg = arg]
  /\ before' = [menu |-> menu, modals |-> modals, titleText |-> titleText]

\* ------------------------------------------------------------ mobile menu
toggleMobileMenuKeepsAria(m) ==
  IF ~Present("mobileMenu") \/ ~Present("mobileMenuBtn") THEN m
  ELSE [m EXCEPT !.hidden = ~@]
toggleMobileMenuAlwaysOpen(m) ==
  IF ~Present("mobileMenu") \/ ~Present("mobileMenuBtn") THEN m
  ELSE LET isOpen == ~m.hidden
       IN  [hidden |-> FALSE, ariaExpanded |-> String(~isOpen)]
toggleMobileMenu(m) ==
  IF ~Present("mobileMenu") \/ ~Present("mobileMenuBtn") THEN m
  ELSE LET isOpen == ~m.hidden
       IN  [hidden |-> ~m.hidden, ariaExpanded |-> String(~isOpen)]

MobileMenuBtnClick ==
  /\ Idle
  /\ Present("mobileMenuBtn")
  /\ menu' = toggleMobileMenu(menu)
  /\ Hist("toggleMobileMenu", "mobileMenuBtn")
  /\ UNCHANGED <<boot, absent, modals, focus, titleText, priceText, fields, feedback,
                 timers, alert, net, uncaught, images>>

\* click on a link inside #mobileMenu
MobileMenuLinkClick ==
  /\ Idle
  /\ Present("mobileMenu")
  /\ menu' = [hidden |-> TRUE,
              ariaExpanded |-> IF Present("mobileMenuBtn") THEN "false"
                               ELSE menu.ariaExpanded]
  /\ Hist("menuLink", "mobileMenu")
  /\ UNCHANGED <<boot, absent, modals, focus, titleText, priceText, fields, feedback,
                 timers, alert, net, uncaught, images>>

\* ------------------------------------------------------------------ modals
\* st = [modals, focus]
openModalClosesOther(st, m) ==
  IF ~Present(m) THEN st
  ELSE [modals |-> [n \in Modals |->
                      IF n = m THEN [hidden |-> FALSE, ariaHidden |-> "false"]
                      ELSE [hidden |-> TRUE, ariaHidden |-> "true"]],
        focus |-> IF Present(Focusable(m)) THEN Focusable(m) ELSE st.focus]
openModalNoFocus(st, m) ==
  IF ~Present(m) THEN st
  ELSE [st EXCEPT !.modals[m] = [hidden |-> FALSE, ariaHidden |-> "false"]]
\* querySelector returns the first match, and focus() on an element that
\* cannot take the focus leaves the focus where it was
openModal(st, m) ==
  IF ~Present(m) THEN st
  ELSE LET focusable == IF Present(Unfocusable(m)) THEN Unfocusable(m)
                        ELSE IF Present(Focusable(m)) THEN Focusable(m)
                        ELSE Null
       IN  [modals |-> [st.modals EXCEPT ![m] = [hidden |-> FALSE, ariaHidden |-> "false"]],
            focus |-> IF focusable = Focusable(m) THEN focusable ELSE st.focus]

closeModalEveryModal(ms, m) ==
  IF ~Present(m) THEN ms
  ELSE [n \in Modals |-> [hidden |-> TRUE, ariaHidden |-> "true"]]
closeModalNoAria(ms, m) ==
  IF ~Present(m) THEN ms
  ELSE [ms EXCEPT ![m].hidden = TRUE]
closeModal(ms, m) ==
  IF ~Present(m) THEN ms
  ELSE [ms EXCEPT ![m] = [hidden |-> TRUE, ariaHidden |-> "true"]]

\* .book-btn, #heroBookBtn, #bookNowTop, #bookNowTopMobile
BookBtnClick ==
  /\ Idle
  /\ Present(".book-btn")
  /\ LET st == openModal([modals |-> modals, focus |-> focus], "bookingModal")
     IN  modals' = st.modals /\ focus' = st.focus
  /\ Hist("book", "bookingModal")
  /\ UNCHANGED <<boot, absent, menu, titleText, priceText, fields, feedback, timers,
                 alert, net, uncaught, images>>

productPriceDataOnly(b) == b.dataPrice
productName(b) == Or(b.dataName, Or(b.h3, Product))
productPrice(b) == Or(b.dataPrice, Or(StripNonNumeric(b.span), <<>>))
priceLabelNoDollar(p) == IF p # <<>> THEN p ELSE <<"--">>
priceLabel(p) == IF p # <<>> THEN <<"$">> \o p ELSE <<"--">>

BuyBtnClick(b) ==
  /\ Idle
  /\ Present(".buy-btn")
  /\ titleText' = IF Present("checkoutProductTitle") THEN productName(b) ELSE titleText
  /\ priceText' = IF Present("checkoutProductPrice") THEN priceLabel(productPrice(b))
                  ELSE priceText
  /\ fields' = [fields EXCEPT
       !["checkoutProductInput"] =
          IF Present("checkoutProductInput") THEN productName(b) ELSE @,
       !["checkoutAmountInput"] =
          IF Present("checkoutAmountInput") THEN productPrice(b) ELSE @]
  /\ LET st == openModal([modals |-> modals, focus |-> focus], "checkoutModal")
     IN  modals' = st.modals /\ focus' = st.focus
  /\ Hist("buy", b.id)
  /\ UNCHANGED <<boot, absent, menu, feedback, timers, alert, net, uncaught, images>>

\* click on a .modal-close button whose closest [role="dialog"] is d
\* ("none": a close button outside every dialog)
ModalCloseClick(d) ==
  /\ Idle
  /\ d \in Modals => Present(d)
  /\ modals' = IF d \in Modals THEN closeModal(modals, d) ELSE modals
  /\ Hist("modalClose", d)
  /\ UNCHANGED <<boot, absent, menu, focus, titleText, priceText, fields, feedback,
                 timers, alert, net, uncaught, images>>

\* click inside modal m; onBackdrop: the target is the modal container itself
ModalClick(m, onBackdrop) ==
  /\ Idle
  /\ Present(m)
  /\ modals' = IF onBackdrop THEN closeModal(modals, m) ELSE modals
  /\ Hist(IF onBackdrop THEN "backdropClick" ELSE "insideClick", m)
  /\ UNCHANGED <<boot, absent, menu, focus, titleText, priceText, fields, feedback,
                 timers, alert, net, uncaught, images>>

IsOpen(ms, m) == Present(m) /\ ~ms[m].hidden

escapeBookingOnly(ms) ==
  IF IsOpen(ms, "bookingModal") THEN closeModal(ms, "bookingModal") ELSE ms
\* [bookingModal, checkoutModal].forEach(m => { if (m && !hidden) closeModal(m) })
escapeCloseAll(ms) ==
  LET a == IF IsOpen(ms, "bookingModal") THEN closeModal(ms, "bookingModal") ELSE ms
  IN  IF IsOpen(a, "checkoutModal") THEN closeModal(a, "checkoutModal") ELSE a

KeyDown(k) ==
  /\ Idle
  /\ modals' = IF k = "Escape" THEN escapeCloseAll(modals) ELSE modals
  /\ Hist("keydown", k)
  /\ UNCHANGED <<boot, absent, menu, focus, titleText, priceText, fields, feedback,
                 timers, alert, net, uncaught, images>>

\* ------------------------------------------------------- inline feedback
ErrorHideMs == 6000
SuccessHideMs == 4000

\* fb = [feedback, timers]
showFeedbackNoTimer(fb, el, message, isError) ==
  IF ~Present(el) THEN fb
  ELSE [fb EXCEPT !.feedback[el] =
          [hidden |-> FALSE, text |-> message,
           color |-> IF isError THEN "text-red-500" ELSE "text-green-600"]]
showFeedbackKeepsHidden(fb, el, message, isError) ==
  IF ~Present(el) THEN fb
  ELSE [feedback |-> [fb.feedback EXCEPT ![el] =
          [hidden |-> @.hidden, text |-> message,
           color |-> IF isError THEN "text-red-500" ELSE "text-green-600"]],
        timers |-> Append(fb.timers,
          [el |-> el, ms |-> IF isError THEN ErrorHideMs ELSE SuccessHideMs])]
showFeedback(fb, el, message, isError) ==
  IF ~Present(el) THEN fb
  ELSE [feedback |-> [fb.feedback EXCEPT ![el] =
          [hidden |-> FALSE, text |-> message,
           color |-> IF isError THEN "text-red-500" ELSE "text-green-600"]],
        timers |-> Append(fb.timers,
          [el |-> el, ms |-> IF isError THEN ErrorHideMs ELSE SuccessHideMs])]

Fb == [feedback |-> feedback, timers |-> timers]
\* the handler's feedback takes effect; the model keeps at most MaxTimers
\* callbacks pending
SetFeedback(fb) ==
  /\ Len(fb.timers) <= MaxTimers
  /\ feedback' = fb.feedback
  /\ timers' = fb.timers

\* the i-th pending callback is due: nothing registered before it with a
\* delay no longer than its own is still pending
Due(i) == \A j \in 1..(i - 1) : timers[j].ms > timers[i].ms

\* () => el.classList.add('hidden')
TimerFire(i) ==
  /\ Idle
  /\ i \in 1..Len(timers)
  /\ Due(i)
  /\ feedback' = [feedback EXCEPT ![timers[i].el].hidden = TRUE]
  /\ timers' = SubSeq(timers, 1, i - 1) \o SubSeq(timers, i + 1, Len(timers))
  /\ UNCHANGED <<boot, absent, menu, modals, focus, titleText, priceText, fields,
                 alert, net, uncaught, images, last, before>>

\* ------------------------------------------------------------------- forms
FormOf(f) ==
  CASE f \in {"bookingForm.name", "bookingForm.email", "bookingForm.date"} -> "bookingForm"
    [] f \in {"checkoutForm.checkoutName", "checkoutForm.checkoutEmail",
              "checkoutProductInput", "checkoutAmountInput"} -> "checkoutForm"
    [] f = "newsletterEmail" -> "newsletterForm"
    [] OTHER -> "contactForm"

Blank == <<" ">>
GoodEmail == <<" ", "a", "@", "b", ".", "c">>
\* what the user may type into a control
Typed(f) ==
  CASE f \in {"bookingForm.email", "checkoutForm.checkoutEmail", "newsletterEmail",
              "contactForm.email"} -> {<<>>, <<"a", "b">>, GoodEmail}
    [] f = "bookingForm.date" -> {<<>>, <<"2", "0", "3", "0", "-", "0", "1", "-", "0", "1">>}
    [] f = "contactForm._honey" -> {<<>>, Blank, <<"b", "o", "t">>}
    [] f \in {"checkoutProductInput", "checkoutAmountInput"} -> {}
    [] f = "contactForm.message" -> {<<>>, <<"h", "i">>}
    [] OTHER -> {<<>>, Blank, <<"A", "n", "n">>}

\* the user edits a control
Input(f, v) ==
  /\ Idle
  /\ Present(f) /\ Present(FormOf(f))
  /\ v \in Typed(f)
  /\ fields' = [fields EXCEPT ![f] = v]
  /\ UNCHANGED <<boot, absent, menu, modals, focus, titleText, priceText, feedback,
                 timers, alert, net, uncaught, images, last, before>>

\* form.reset(): every control back to its default value.  The two hidden
\* checkout inputs keep what was assigned: the value of a hidden input is its
\* value attribute, which is the default that reset() restores.
ResetFormKeepsValues(fl, form) == fl
ResetForm(fl, form) ==
  [f \in FieldIds |->
     IF FormOf(f) = form /\ Present(f)
        /\ f \notin {"checkoutProductInput", "checkoutAmountInput"}
     THEN <<>> ELSE fl[f]]

\* x.value of a control that is missing: a TypeError
Throws(op) ==
  /\ uncaught' = uncaught \cup {op}
  /\ UNCHANGED <<boot, absent, menu, modals, focus, titleText, priceText, fields,
                 feedback, timers, alert, net, images>>

MsgRequired == "Please complete required fields."
MsgEmail == "Enter a valid email address."

bookingIncompleteNoDate(name, email, date) == name = <<>> \/ email = <<>>
\* !name || !email || !date
bookingIncomplete(name, email, date) == name = <<>> \/ email = <<>> \/ date = <<>>

BookingSubmit ==
  /\ Idle
  /\ Present("bookingForm")
  /\ Hist("bookingSubmit", "bookingForm")
  /\ IF \E f \in {"bookingForm.name", "bookingForm.email", "bookingForm.date"} : ~Present(f)
     THEN Throws("bookingSubmit")
     ELSE LET name == Trim(fields["bookingForm.name"])
              email == Trim(fields["bookingForm.email"])
              date == fields["bookingForm.date"]
          IN  IF bookingIncomplete(name, email, date)
              THEN /\ SetFeedback(showFeedback(Fb, "bookingFeedback", MsgRequired, TRUE))
                   /\ UNCHANGED <<boot, absent, menu, modals, focus, titleText, priceText,
                                  fields, alert, net, uncaught, images>>
              ELSE IF ~EmailTest(email)
              THEN /\ SetFeedback(showFeedback(Fb, "bookingFeedback", MsgEmail, TRUE))
                   /\ UNCHANGED <<boot, absent, menu, modals, focus, titleText, priceText,
                                  fields, alert, net, uncaught, images>>
              ELSE /\ modals' = closeModal(modals, "bookingModal")
                   /\ alert' = [msg |-> "Thank you! Your booking request has been submitted (demo).",
                                resume |-> "bookingForm"]
                   /\ UNCHANGED <<boot, absent, menu, focus, titleText, priceText, fields,
                                  feedback, timers, net, uncaught, images>>

checkoutIncompleteNoEmail(name, email) == name = <<>>
\* !name || !email
checkoutIncomplete(name, email) == name = <<>> \/ email = <<>>

CheckoutSubmit ==
  /\ Idle
  /\ Present("checkoutForm")
  /\ Hist("checkoutSubmit", "checkoutForm")
  /\ IF \E f \in {"checkoutForm.checkoutName", "checkoutForm.checkoutEmail"} : ~Present(f)
     THEN Throws("checkoutSubmit")
     ELSE LET name == Trim(fields["checkoutForm.checkoutName"])
              email == Trim(fields["checkoutForm.checkoutEmail"])
          IN  IF checkoutIncomplete(name, email)
              THEN /\ SetFeedback(showFeedback(Fb, "checkoutFeedback", MsgRequired, TRUE))
                   /\ UNCHANGED <<boot, absent, menu, modals, focus, titleText, priceText,
                                  fields, alert, net, uncaught, images>>
              ELSE IF ~EmailTest(email)
              THEN /\ SetFeedback(showFeedback(Fb, "checkoutFeedback", MsgEmail, TRUE))
                   /\ UNCHANGED <<boot, absent, menu, modals, focus, titleText, priceText,
                                  fields, alert, net, uncaught, images>>
              ELSE /\ modals' = closeModal(modals, "checkoutModal")
                   /\ alert' = [msg |-> "Order placed (demo). Thank you!",
                                resume |-> "checkoutForm"]
                   /\ UNCHANGED <<boot, absent, menu, focus, titleText, priceText, fields,
                                  feedback, timers, net, uncaught, images>>

NewsletterSubmit ==
  /\ Idle
  /\ Present("newsletterForm")
  /\ Hist("newsletterSubmit", "newsletterForm")
  /\ IF ~Present("newsletterEmail")
     THEN Throws("newsletterSubmit")
     ELSE LET email == Trim(fields["newsletterEmail"])
          IN  /\ alert' = IF ~EmailTest(email)
                          THEN [msg |-> "Please enter a valid email.", resume |-> Null]
                          ELSE [msg |-> "Thanks for subscribing! (demo)",
                                resume |-> "newsletterForm"]
              /\ UNCHANGED <<boot, absent, menu, modals, focus, titleText, priceText, fields,
                             feedback, timers, net, uncaught, images>>

\* the user dismisses the alert; the suspended handler runs to its end
\* (form.reset() on the three success paths)
AlertDismiss ==
  /\ alert # NoAlert
  /\ fields' = IF alert.resume = Null THEN fields ELSE ResetForm(fields, alert.resume)
  /\ alert' = NoAlert
  /\ UNCHANGED <<boot, absent, menu, modals, focus, titleText, priceText, feedback,
                 timers, net, uncaught, images, last, before>>

\* ----------------------------------------------------------- contact form
MsgBlocked == "Submission blocked."
MsgSent == "Thanks -- your message has been sent."
MsgFailed == "Submission failed -- please try again later."
MsgNetwork == "Network error -- please try again later."

\* (formData.get(n) || '').toString().trim(): '' for a control that is missing
FormValue(f) == IF Present(f) THEN Trim(fields[f]) ELSE <<>>

honeyNever(honey) == FALSE
\* if (honey)
honeyTripped(honey) == honey # <<>>

contactIncompleteNoMessage(name, email, message) == name = <<>> \/ email = <<>>
\* !name || !email || !message
contactIncomplete(name, email, message) ==
  name = <<>> \/ email = <<>> \/ message = <<>>

\* the submission goes on to fetch()
ContactPasses ==
  /\ ~honeyTripped(FormValue("contactForm._honey"))
  /\ ~contactIncomplete(FormValue("contactForm.name"), FormValue("contactForm.email"),
                        FormValue("contactForm.message"))
  /\ EmailTest(FormValue("contactForm.email"))

Endpoint == "https://formsubmit.co/ajax/nathanmail0004@gmail.com"

\* the submit handler up to its await of fetch()
ContactSubmit ==
  /\ Idle
  /\ Present("contactForm")
  /\ Hist("contactSubmit", "contactForm")
  /\ LET name == FormValue("contactForm.name")
         email == FormValue("contactForm.email")
         message == FormValue("contactForm.message")
         honey == FormValue("contactForm._honey")
     IN  IF honeyTripped(honey)
         THEN /\ SetFeedback(showFeedback(Fb, "contactFeedback", MsgBlocked, TRUE))
              /\ net' = net
         ELSE IF contactIncomplete(name, email, message)
         THEN /\ SetFeedback(showFeedback(Fb, "contactFeedback", MsgRequired, TRUE))
              /\ net' = net
         ELSE IF ~EmailTest(email)
         THEN /\ SetFeedback(showFeedback(Fb, "contactFeedback", MsgEmail, TRUE))
              /\ net' = net
         ELSE /\ Len(net) < MaxInFlight
              /\ net' = Append(net, [method |-> "POST", url |-> Endpoint])
              /\ UNCHANGED <<feedback, timers>>
  /\ UNCHANGED <<boot, absent, menu, modals, focus, titleText, priceText, fields, alert,
                 uncaught, images>>

ServerMsg == "Quota exceeded"
\* how a POST ends: fetch() rejects, or a response arrives with a status
\* (ok: 2xx) and a body that is no JSON, the JSON null, or a JSON object with
\* or without the success and message members
Outcomes ==
  { [kind |-> "reject", ok |-> "false", success |-> Null, message |-> Null] }
  \cup [kind : {"notJSON", "jsonNull"}, ok : {"true", "false"},
        success : {Null}, message : {Null}]
  \cup [kind : {"object"}, ok : {"true", "false"},
        success : {Null, "true", "false"}, message : {Null, "", ServerMsg}]

\* fetch() rejected, res.json() rejected, or json.success of null threw
Caught(o) == o.kind \in {"reject", "notJSON", "jsonNull"}

failureMessageGeneric(o) == MsgFailed
\* json.message || 'Submission failed ...'
failureMessage(o) == IF o.message \notin {Null, ""} THEN o.message ELSE MsgFailed

\* the rest of the submit handler, from the POST's outcome on; the awaits of
\* fetch() and res.json() change nothing in between and are one step
ContactSettle(i, o) ==
  /\ Idle
  /\ i \in 1..Len(net)
  /\ net' = SubSeq(net, 1, i - 1) \o SubSeq(net, i + 1, Len(net))
  /\ IF Caught(o)
     THEN /\ SetFeedback(showFeedback(Fb, "contactFeedback", MsgNetwork, TRUE))
          /\ fields' = fields
     ELSE IF o.ok = "true" /\ o.success = "true"
     THEN /\ SetFeedback(showFeedback(Fb, "contactFeedback", MsgSent, FALSE))
          /\ fields' = ResetForm(fields, "contactForm")
     ELSE /\ SetFeedback(showFeedback(Fb, "contactFeedback", failureMessage(o), TRUE))
          /\ fields' = fields
  /\ UNCHANGED <<boot, absent, menu, modals, focus, titleText, priceText, alert,
                 uncaught, images, last, before>>

\* --------------------------------------------------------------- page load
\* the state of one [data-include] element: its request ("idle" before
\* loadIncludes, "fetching" while fetch() is pending, "reading" while
\* res.text() is pending, "done" when its async callback has returned) and
\* whether the fragment was written to its innerHTML
Include(req, filled) == [req |-> req, filled |-> filled]

\* a page with no include elements, after DOMContentLoaded: initUI has run
Loaded == [phase |-> "ready", includes |-> <<>>, initUI |-> 1, errors |-> <<>>]

startIncludesOneByOne(incs) ==
  [i \in 1..Len(incs) |-> IF i = 1 THEN Include("fetching", FALSE) ELSE incs[i]]
\* includes.map(async (el) => ...): every callback runs up to its first await,
\* so every fetch is issued before any of them settles
startIncludes(incs) == [i \in 1..Len(incs) |-> Include("fetching", FALSE)]

\* DOMContentLoaded fires (once per document): loadIncludes() is called and
\* the handler waits for Promise.all
DOMContentLoaded ==
  /\ boot.phase = "loading"
  /\ boot' = [boot EXCEPT !.phase = "includes", !.includes = startIncludes(@)]
  /\ UNCHANGED <<absent, menu, modals, focus, titleText, priceText, fields, feedback,
                 timers, alert, net, uncaught, images, last, before>>

\* the fetch of include i settles: rejected, answered not ok (both thrown
\* into the catch, which logs), or answered ok
FetchSettle(i, o) ==
  /\ i \in 1..Len(boot.includes)
  /\ boot.includes[i].req = "fetching"
  /\ o \in {"reject", "notOk", "ok"}
  /\ boot' = IF o = "ok"
             THEN [boot EXCEPT !.includes[i].req = "reading"]
             ELSE [boot EXCEPT !.includes[i].req = "done", !.errors = Append(@, i)]
  /\ UNCHANGED <<absent, menu, modals, focus, titleText, priceText, fields, feedback,
                 timers, alert, net, uncaught, images, last, before>>

\* res.text() of include i settles: the body is written to innerHTML, or the
\* read failed and the catch logs
TextSettle(i, ok) ==
  /\ i \in 1..Len(boot.includes)
  /\ boot.includes[i].req = "reading"
  /\ boot' = IF ok
             THEN [boot EXCEPT !.includes[i] = Include("done", TRUE)]
             ELSE [boot EXCEPT !.includes[i].req = "done", !.errors = Append(@, i)]
  /\ UNCHANGED <<absent, menu, modals, focus, titleText, priceText, fields, feedback,
                 timers, alert, net, uncaught, images, last, before>>

\* Promise.all has resolved: the DOMContentLoaded handler goes on to initUI()
InitUI ==
  /\ boot.phase = "includes"
  /\ \A i \in 1..Len(boot.includes) : boot.includes[i].req = "done"
  /\ boot' = [boot EXCEPT !.phase = "ready", !.initUI = @ + 1]
  /\ UNCHANGED <<absent, menu, modals, focus, titleText, priceText, fields, feedback,
                 timers, alert, net, uncaught, images, last, before>>

\* ------------------------------------------------------------------ images
\* URLs are sequences of path segments; an absolute one starts with its origin
Origins == {"https://harvest.example/", "https://images.unsplash.com/"}
DocumentBase == "https://harvest.example/"
IsAbsolute(u) == u # <<>> /\ Head(u) \in Origins
\* the src property read back: the attribute resolved against the document
Resolve(u) == IF IsAbsolute(u) THEN u ELSE <<DocumentBase>> \o u

placeholderSVG == <<"assets/", "placeholder.svg">>

Images == {"img1", "img2", "img3"}
OriginalSrc(i) == <<"https://images.unsplash.com/", i>>
FreshImages == [i \in Images |-> [src |-> OriginalSrc(i), state |-> "loading", assigns |-> 0]]

\* the image's current source has loaded
ImgLoad(i) ==
  /\ Idle
  /\ images[i].state = "loading"
  /\ images' = [images EXCEPT ![i].state = "loaded"]
  /\ UNCHANGED <<boot, absent, menu, modals, focus, titleText, priceText, fields,
                 feedback, timers, alert, net, uncaught, last, before>>

\* the image's current source failed to load: the error listener runs.
\* Assigning src, even the same value, starts a new load.
ImgError(i) ==
  /\ Idle
  /\ images[i].state = "loading"
  /\ images[i].assigns < MaxAssign
  /\ images' = [images EXCEPT ![i] =
       IF Resolve(@.src) # placeholderSVG
       THEN [src |-> placeholderSVG, state |-> "loading", assigns |-> @.assigns + 1]
       ELSE [@ EXCEPT !.state = "broken"]]
  /\ Hist("imgError", i)
  /\ UNCHANGED <<boot, absent, menu, modals, focus, titleText, priceText, fields,
                 feedback, timers, alert, net, uncaught>>


\* in the pages as shipped the first match of the selector in each modal can
\* take the focus
FirstMatchFocusable == {Unfocusable(m) : m \in Modals}

\* the page as the markup delivers it, every element of the DOM contract in
\* place; aria-expanded, the menu's hidden class and aria-hidden are whatever
\* the markup says
Init ==
  /\ boot = Loaded
  /\ absent = FirstMatchFocusable
  /\ menu \in [hidden : BOOLEAN, ariaExpanded : {Null, "true", "false"}]
  /\ modals \in [Modals -> [hidden : {TRUE}, ariaHidden : {Null, "true", "false"}]]
  /\ focus = "body"
  /\ titleText = <<>>
  /\ priceText = <<>>
  /\ fields = [f \in FieldIds |-> <<>>]
  /\ feedback = [e \in FeedbackEls |-> [hidden |-> TRUE, text |-> "", color |-> Null]]
  /\ timers = <<>>
  /\ alert = NoAlert
  /\ net = <<>>
  /\ uncaught = {}
  /\ images = FreshImages
  /\ last = [op |-> "load", arg |-> Null, twice |-> FALSE]
  /\ before = [menu |-> menu, modals |-> modals, titleText |-> titleText]

NextNav ==
  \/ MobileMenuBtnClick
  \/ MobileMenuLinkClick
  \/ BookBtnClick
  \/ \E b \in BuyButtons : BuyBtnClick(b)
  \/ \E d \in Modals \cup {"none"} : ModalCloseClick(d)
  \/ \E m \in Modals, t \in BOOLEAN : ModalClick(m, t)
  \/ \E k \in Keys : KeyDown(k)

SpecNav == Init /\ [][NextNav]_vars

\* the elements that come with a form: its controls, its feedback element and
\* the modal that holds it
FormElems(form) ==
  {form} \cup {f \in FieldIds : FormOf(f) = form}
  \cup (CASE form = "bookingForm" ->
            {"bookingFeedback", "bookingModal", Focusable("bookingModal"), ".book-btn"}
          [] form = "checkoutForm" ->
            {"checkoutFeedback", "checkoutModal", Focusable("checkoutModal"),
             "checkoutProductTitle", "checkoutProductPrice", ".buy-btn"}
          [] form = "contactForm" -> {"contactFeedback"}
          [] OTHER -> {})

StandardMarkup ==
  /\ menu = [hidden |-> TRUE, ariaExpanded |-> "false"]
  /\ modals = [m \in Modals |-> [hidden |-> TRUE, ariaHidden |-> "true"]]

\* nothing has run yet
Untouched ==
  /\ boot = Loaded
  /\ focus = "body"
  /\ titleText = <<>>
  /\ priceText = <<>>
  /\ feedback = [e \in FeedbackEls |-> [hidden |-> TRUE, text |-> "", color |-> Null]]
  /\ timers = <<>>
  /\ alert = NoAlert
  /\ net = <<>>
  /\ uncaught = {}
  /\ images = FreshImages
  /\ last = [op |-> "load", arg |-> Null, twice |-> FALSE]
  /\ before = [menu |-> menu, modals |-> modals, titleText |-> titleText]

Blank0 ==
  /\ fields = [f \in FieldIds |-> <<>>]
  /\ Untouched

\* a page of the site that carries one of the four forms, complete
InitForms ==
  /\ \E form \in Forms :
       absent = UNION {FormElems(g) : g \in Forms \ {form}} \cup FirstMatchFocusable
  /\ StandardMarkup
  /\ Blank0

NextForms ==
  \/ \E f \in FieldIds : \E v \in Typed(f) : Input(f, v)
  \/ BookingSubmit
  \/ CheckoutSubmit
  \/ NewsletterSubmit
  \/ ContactSubmit
  \/ \E i \in 1..Len(net) : \E o \in Outcomes : ContactSettle(i, o)
  \/ \E i \in 1..Len(timers) : TimerFire(i)
  \/ AlertDismiss
  \/ BookBtnClick
  \/ \E b \in BuyButtons : BuyBtnClick(b)

SpecForms == InitForms /\ [][NextForms]_vars

\* the texts over EmailChars of length n
RECURSIVE TextsOfLen(_)
TextsOfLen(n) ==
  IF n = 0 THEN {<<>>}
  ELSE {Append(t, c) : t \in TextsOfLen(n - 1), c \in {"a", "@", ".", " "}}
EmailInputs == UNION {TextsOfLen(n) : n \in 0..MaxLen}

EmailFieldOf(form) ==
  CASE form = "bookingForm" -> "bookingForm.email"
    [] form = "checkoutForm" -> "checkoutForm.checkoutEmail"
    [] form = "newsletterForm" -> "newsletterEmail"
    [] OTHER -> "contactForm.email"

\* a page with one form whose e-mail control holds any text up to MaxLen
\* characters and whose other required controls are filled in
InitEmail ==
  /\ \E form \in Forms :
       /\ absent = UNION {FormElems(g) : g \in Forms \ {form}} \cup FirstMatchFocusable
       /\ \E e \in EmailInputs :
            fields = [f \in FieldIds |->
              IF f = EmailFieldOf(form) THEN e
              ELSE IF FormOf(f) = form /\ f \in {"bookingForm.name", "bookingForm.date",
                        "checkoutForm.checkoutName", "contactForm.name",
                        "contactForm.message"}
              THEN <<"A", "n", "n">> ELSE <<>>]
  /\ StandardMarkup
  /\ Untouched

NextEmail ==
  \/ BookingSubmit
  \/ CheckoutSubmit
  \/ NewsletterSubmit
  \/ ContactSubmit
  \/ AlertDismiss

SpecEmail == InitEmail /\ [][NextEmail]_vars

InitImage ==
  /\ absent = FirstMatchFocusable
  /\ StandardMarkup
  /\ Blank0

NextImage ==
  \/ \E i \in Images : ImgLoad(i)
  \/ \E i \in Images : ImgError(i)

SpecImage == InitImage /\ [][NextImage]_vars

\* the elements a form's modal depends on: the modal, the control that
\* receives the focus, and the trigger that opens it
ModalElems(form) ==
  IF form = "bookingForm"
  THEN {"bookingModal", Focusable("bookingModal"), ".book-btn"}
  ELSE {"checkoutModal", Focusable("checkoutModal"), ".buy-btn"}

ModalOf(form) == IF form = "bookingForm" THEN "bookingModal" ELSE "checkoutModal"

\* a booking or checkout page from which up to MaxAbsent of the elements its
\* modal depends on are missing as well, and whose modal may begin with a
\* control that cannot take the focus
InitDom ==
  /\ \E form \in {"bookingForm", "checkoutForm"} :
       \E gone \in SUBSET ModalElems(form) :
         \E lead \in SUBSET {Unfocusable(ModalOf(form))} :
          /\ Cardinality(gone) <= MaxAbsent
          /\ absent = UNION {FormElems(g) : g \in Forms \ {form}} \cup gone
                        \cup (FirstMatchFocusable \ lead)
  /\ StandardMarkup
  /\ Blank0

\* the visitor fills the controls in properly; a successful submit resets them
NextDom ==
  \/ \E f \in FieldIds : \E v \in Typed(f) \ {<<>>, Blank, <<"a", "b">>} : Input(f, v)
  \/ BookingSubmit
  \/ CheckoutSubmit
  \/ AlertDismiss
  \/ \E i \in 1..Len(timers) : TimerFire(i)
  \/ BookBtnClick
  \/ \E b \in BuyButtons : BuyBtnClick(b)
  \/ \E d \in Modals \cup {"none"} : ModalCloseClick(d)
  \/ \E m \in Modals, t \in BOOLEAN : ModalClick(m, t)
  \/ \E k \in Keys : KeyDown(k)

SpecDom == InitDom /\ [][NextDom]_vars

\* the elements of a page that carries the given form: the form's own and the
\* mobile menu
PageElems(form) == FormElems(form) \cup {"mobileMenuBtn", "mobileMenu"}

\* a page with one of the four forms from which up to MaxAbsent of its
\* elements are missing
InitAbsent ==
  /\ \E form \in Forms :
       \E gone \in SUBSET PageElems(form) :
          /\ Cardinality(gone) <= MaxAbsent
          /\ absent = UNION {FormElems(g) : g \in Forms \ {form}} \cup gone
                        \cup FirstMatchFocusable
  /\ StandardMarkup
  /\ Blank0

NextAbsent ==
  \/ \E f \in FieldIds : \E v \in Typed(f) \ {<<>>, Blank, <<"a", "b">>} : Input(f, v)
  \/ BookingSubmit
  \/ CheckoutSubmit
  \/ NewsletterSubmit
  \/ ContactSubmit
  \/ \E i \in 1..Len(net) : \E o \in Outcomes : ContactSettle(i, o)
  \/ \E i \in 1..Len(timers) : TimerFire(i)
  \/ AlertDismiss
  \/ MobileMenuBtnClick
  \/ MobileMenuLinkClick
  \/ BookBtnClick
  \/ \E b \in BuyButtons : BuyBtnClick(b)
  \/ \E d \in Modals \cup {"none"} : ModalCloseClick(d)
  \/ \E m \in Modals, t \in BOOLEAN : ModalClick(m, t)
  \/ \E k \in Keys : KeyDown(k)

SpecAbsent == InitAbsent /\ [][NextAbsent]_vars

\* a document with up to MaxIncludes include elements, parsed, before
\* DOMContentLoaded
InitLoad ==
  /\ \E n \in 0..MaxIncludes :
       boot = [phase |-> "loading", includes |-> [i \in 1..n |-> Include("idle", FALSE)],
               initUI |-> 0, errors |-> <<>>]
  /\ absent = FirstMatchFocusable
  /\ StandardMarkup
  /\ fields = [f \in FieldIds |-> <<>>]
  /\ focus = "body"
  /\ titleText = <<>>
  /\ priceText = <<>>
  /\ feedback = [e \in FeedbackEls |-> [hidden |-> TRUE, text |-> "", color |-> Null]]
  /\ timers = <<>>
  /\ alert = NoAlert
  /\ net = <<>>
  /\ uncaught = {}
  /\ images = FreshImages
  /\ last = [op |-> "load", arg |-> Null, twice |-> FALSE]
  /\ before = [menu |-> menu, modals |-> modals, titleText |-> titleText]

NextLoad ==
  \/ DOMContentLoaded
  \/ \E i \in 1..Len(boot.includes) : \E o \in {"reject", "notOk", "ok"} : FetchSettle(i, o)
  \/ \E i \in 1..Len(boot.includes) : \E ok \in BOOLEAN : TextSettle(i, ok)
  \/ InitUI
  \/ MobileMenuBtnClick

SpecLoad == InitLoad /\ [][NextLoad]_vars
\* the handler's continuation after `await loadIncludes()` is a job the event
\* loop runs once Promise.all has resolved
SpecLoadFair == SpecLoad /\ WF_vars(InitUI)

\* a page with both modals, their forms filled in by the visitor; aria-hidden
\* of the modals is whatever the markup says
InitModal ==
  /\ absent = FormElems("newsletterForm") \cup FormElems("contactForm")
                \cup FirstMatchFocusable
  /\ menu = [hidden |-> TRUE, ariaExpanded |-> "false"]
  /\ modals \in [Modals -> [hidden : {TRUE}, ariaHidden : {Null, "true", "false"}]]
  /\ fields = [f \in FieldIds |->
                 IF f \in {"bookingForm.email", "checkoutForm.checkoutEmail"} THEN GoodEmail
                 ELSE IF f \in {"bookingForm.name", "checkoutForm.checkoutName"}
                 THEN <<"A", "n", "n">>
                 ELSE IF f = "bookingForm.date"
                 THEN <<"2", "0", "3", "0", "-", "0", "1", "-", "0", "1">>
                 ELSE <<>>]
  /\ Untouched

\* opening, closing and submitting; a form that was reset is not filled in
\* again
NextModal ==
  \/ BookingSubmit
  \/ CheckoutSubmit
  \/ AlertDismiss
  \/ \E i \in 1..Len(timers) : TimerFire(i)
  \/ BookBtnClick
  \/ \E b \in {c \in BuyButtons : c.id = "buy1"} : BuyBtnClick(b)
  \/ \E d \in Modals : ModalCloseClick(d)
  \/ \E m \in Modals, t \in BOOLEAN : ModalClick(m, t)
  \/ KeyDown("Escape")

SpecModal == InitModal /\ [][NextModal]_vars

\* the contact page, the visitor filling the controls in properly
InitContact ==
  /\ absent = UNION {FormElems(g) : g \in Forms \ {"contactForm"}} \cup FirstMatchFocusable
  /\ StandardMarkup
  /\ Blank0

NextContact ==
  \/ \E f \in FieldIds : \E v \in Typed(f) \ {<<>>, Blank, <<"a", "b">>} : Input(f, v)
  \/ ContactSubmit
  \/ \E i \in 1..Len(net) : \E o \in Outcomes : ContactSettle(i, o)
  \/ \E i \in 1..Len(timers) : TimerFire(i)

SpecContact == InitContact /\ [][NextContact]_vars

\* ================================================================== claims

\* aria-expanded says what the panel's class says
MenuConsistent(m) == m.ariaExpanded = String(~m.hidden)

\* C7 as stated: from any state of the menu, whatever the markup's
\* aria-expanded and hidden class, the second of two consecutive clicks on the
\* menu button puts the panel's visibility and aria-expanded back to what they
\* were before the first.
C7_RoundTripFromAnyState ==
  [][(MobileMenuBtnClick /\ last.op = "toggleMobileMenu") => menu' = before.menu]_vars

\* C7 amended: the second of two consecutive clicks on the menu button always
\* restores the panel's visibility, and restores aria-expanded too when,
\* before the first click, aria-expanded agreed with the visibility.
C7_RoundTripWhenConsistent ==
  [][(MobileMenuBtnClick /\ last.op = "toggleMobileMenu")
       => /\ menu'.hidden = before.menu.hidden
          /\ (MenuConsistent(before.menu) => menu' = before.menu)]_vars

\* two clicks in a row have brought an open menu back
C7_Witness ==
  /\ last.op = "toggleMobileMenu" /\ last.twice
  /\ menu = [hidden |-> FALSE, ariaExpanded |-> "true"]
  /\ before.menu = [hidden |-> TRUE, ariaExpanded |-> "false"]

Closed == [hidden |-> TRUE, ariaHidden |-> "true"]

\* C8: a keydown of Escape leaves every modal hidden, each modal that was open
\* hidden with aria-hidden "true", and touches nothing else; with no modal
\* open it changes nothing on the page; any other key changes nothing.
C8_EscapeClosesAll ==
  [][\A k \in Keys : KeyDown(k) =>
        IF k = "Escape"
        THEN /\ \A m \in Modals : modals'[m].hidden
             /\ \A m \in Modals : ~modals[m].hidden => modals'[m] = Closed
             /\ \A m \in Modals : modals[m].hidden => modals'[m] = modals[m]
             /\ UNCHANGED <<boot, absent, menu, focus, titleText, priceText, fields,
                            feedback, timers, alert, net, uncaught, images>>
        ELSE UNCHANGED page]_vars

\* Escape has just closed the booking and the checkout modal together
C8_Witness ==
  /\ last.op = "keydown" /\ last.arg = "Escape"
  /\ \A m \in Modals : ~before.modals[m].hidden /\ modals[m] = Closed

\* C10: a click on a buy button whose data attributes give a name N and a price
\* P, both non-empty, leaves the checkout title N, the price field "$" then P,
\* the hidden product and amount inputs N and P and the checkout modal open,
\* whatever an earlier buy click wrote.
C10_BuyPopulatesCheckout ==
  [][\A b \in BuyButtons :
        (BuyBtnClick(b) /\ b.dataName # <<>> /\ b.dataPrice # <<>>) =>
           /\ titleText' = b.dataName
           /\ priceText' = <<"$">> \o b.dataPrice
           /\ fields'["checkoutProductInput"] = b.dataName
           /\ fields'["checkoutAmountInput"] = b.dataPrice
           /\ ~modals'["checkoutModal"].hidden
           /\ modals'["checkoutModal"].ariaHidden = "false"]_vars

\* Olive Oil at 24.99 bought right after Sea Salt
C10_Witness ==
  /\ last.op = "buy" /\ last.arg = "buy1"
  /\ before.titleText = SeaSalt
  /\ titleText = OliveOil
  /\ priceText = <<"$", "2", "4", ".", "9", "9">>
  /\ fields["checkoutProductInput"] = OliveOil
  /\ fields["checkoutAmountInput"] = <<"2", "4", ".", "9", "9">>
  /\ ~modals["checkoutModal"].hidden

\* ------------------------------------------------------------ form claims
FeedbackOf(form) ==
  CASE form = "bookingForm" -> "bookingFeedback"
    [] form = "checkoutForm" -> "checkoutFeedback"
    [] OTHER -> "contactFeedback"

SubmitOf(form) ==
  CASE form = "bookingForm" -> BookingSubmit
    [] form = "checkoutForm" -> CheckoutSubmit
    [] form = "newsletterForm" -> NewsletterSubmit
    [] OTHER -> ContactSubmit

\* a required control of the form holds nothing, or only white space where
\* the handler trims
RequiredEmpty(form) ==
  CASE form = "bookingForm" ->
         \/ Trim(fields["bookingForm.name"]) = <<>>
         \/ Trim(fields["bookingForm.email"]) = <<>>
         \/ fields["bookingForm.date"] = <<>>
    [] form = "checkoutForm" ->
         \/ Trim(fields["checkoutForm.checkoutName"]) = <<>>
         \/ Trim(fields["checkoutForm.checkoutEmail"]) = <<>>
    [] form = "newsletterForm" -> Trim(fields["newsletterEmail"]) = <<>>
    [] OTHER ->
         \/ Trim(fields["contactForm.name"]) = <<>>
         \/ Trim(fields["contactForm.email"]) = <<>>
         \/ Trim(fields["contactForm.message"]) = <<>>

\* C1: on each of the four forms a submit with a required control empty (or
\* blank, where trimmed) shows an error (the form's feedback element visible
\* and red, or for the newsletter the alert "Please enter a valid email.") and
\* takes no step of the success path: no success alert, no green feedback, no
\* control changed or reset (now or when the alert is dismissed), no modal
\* closed, no request issued.
C1_EmptyRequiredBlocks ==
  [][\A form \in Forms :
        (SubmitOf(form) /\ RequiredEmpty(form)) =>
           /\ IF form = "newsletterForm"
              THEN alert' = [msg |-> "Please enter a valid email.", resume |-> Null]
              ELSE /\ alert' = NoAlert
                   /\ ~feedback'[FeedbackOf(form)].hidden
                   /\ feedback'[FeedbackOf(form)].color = "text-red-500"
                   /\ feedback'[FeedbackOf(form)].text \in {MsgRequired, MsgBlocked}
           /\ fields' = fields
           /\ modals' = modals
           /\ net' = net]_vars

\* the booking form, its modal open, was submitted with a blank name and got
\* the inline error
C1_Witness ==
  /\ last.op = "bookingSubmit"
  /\ fields["bookingForm.name"] = Blank
  /\ fields["bookingForm.email"] = GoodEmail
  /\ fields["bookingForm.date"] # <<>>
  /\ feedback["bookingFeedback"] =
       [hidden |-> FALSE, text |-> MsgRequired, color |-> "text-red-500"]
  /\ ~modals["bookingModal"].hidden
  /\ alert = NoAlert

BlockedShown ==
  [hidden |-> FALSE, text |-> MsgBlocked, color |-> "text-red-500"]

\* C2 as stated: every contact submit whose _honey control is not empty shows
\* the inline error "Submission blocked." and issues no request.
C2_HoneypotNonEmptyBlocks ==
  [][(ContactSubmit /\ fields["contactForm._honey"] # <<>>) =>
        /\ feedback'["contactFeedback"] = BlockedShown
        /\ net' = net]_vars

\* C2 amended: every contact submit whose _honey control holds something other
\* than white space shows the inline error "Submission blocked." and issues
\* no request, whatever the other controls hold.
C2_HoneypotNonBlankBlocks ==
  [][(ContactSubmit /\ Trim(fields["contactForm._honey"]) # <<>>) =>
        /\ feedback'["contactFeedback"] = BlockedShown
        /\ net' = net]_vars

\* a bot filled the honeypot of an otherwise valid contact form
C2_Witness ==
  /\ last.op = "contactSubmit"
  /\ fields["contactForm._honey"] = <<"b", "o", "t">>
  /\ Trim(fields["contactForm.name"]) # <<>>
  /\ EmailTest(Trim(fields["contactForm.email"]))
  /\ Trim(fields["contactForm.message"]) # <<>>
  /\ feedback["contactFeedback"] = BlockedShown
  /\ net = <<>>

\* the server answered, and not with an ok status and success true
ServerFailure(o) ==
  o.kind # "reject" /\ ~(o.ok = "true" /\ o.success = "true")

\* C4: when the POST of a contact submission is answered with a status that is
\* not ok or with success false, the inline error shows the response's message
\* verbatim if it has one and "Submission failed -- please try again later."
\* otherwise; "Network error -- please try again later." is shown only when
\* fetch() itself rejects.
C4_ServerMessageVerbatim ==
  [][\A i \in 1..Len(net) : \A o \in Outcomes :
        ContactSettle(i, o) =>
           /\ ServerFailure(o) =>
                feedback'["contactFeedback"] =
                  [hidden |-> FALSE,
                   text |-> IF o.message \notin {Null, ""} THEN o.message ELSE MsgFailed,
                   color |-> "text-red-500"]
           /\ feedback'["contactFeedback"].text = MsgNetwork => o.kind = "reject"]_vars

ValidContact ==
  /\ Trim(fields["contactForm.name"]) # <<>>
  /\ Trim(fields["contactForm.email"]) # <<>>
  /\ Trim(fields["contactForm.message"]) # <<>>
  /\ EmailTest(Trim(fields["contactForm.email"]))

\* C6 as stated: the requests in flight grow only by a contact submit with an
\* empty honeypot that passes the required-field and e-mail checks, and then
\* by exactly one POST; the booking, checkout and newsletter handlers (and
\* the continuation after their alert) issue none.
C6_PostOnlyWhenHoneypotEmpty ==
  [][/\ Len(net') > Len(net) =>
          ContactSubmit /\ fields["contactForm._honey"] = <<>> /\ ValidContact
     /\ (ContactSubmit /\ fields["contactForm._honey"] = <<>> /\ ValidContact) =>
          net' = Append(net, [method |-> "POST", url |-> Endpoint])
     /\ (BookingSubmit \/ CheckoutSubmit \/ NewsletterSubmit \/ AlertDismiss) =>
          net' = net]_vars

\* C6 amended: the requests in flight grow only by a contact submit whose
\* honeypot is empty or holds only white space and that passes the
\* required-field and e-mail checks, and then by exactly one POST; the
\* booking, checkout and newsletter handlers issue none.
C6_PostOnlyWhenHoneypotBlank ==
  [][/\ Len(net') > Len(net) =>
          ContactSubmit /\ Trim(fields["contactForm._honey"]) = <<>> /\ ValidContact
     /\ (ContactSubmit /\ Trim(fields["contactForm._honey"]) = <<>> /\ ValidContact) =>
          net' = Append(net, [method |-> "POST", url |-> Endpoint])
     /\ (BookingSubmit \/ CheckoutSubmit \/ NewsletterSubmit \/ AlertDismiss) =>
          net' = net]_vars

\* one valid contact submission, one POST in flight
C6_Witness ==
  /\ last.op = "contactSubmit"
  /\ fields["contactForm._honey"] = <<>>
  /\ ValidContact
  /\ net = <<[method |-> "POST", url |-> Endpoint]>>

\* ------------------------------------------------------------ e-mail claim
\* non-space characters, '@', non-space characters, '.', non-space characters
EmailShape(s) ==
  /\ \A k \in 1..Len(s) : ~IsSpace(s[k])
  /\ \E a \in 2..Len(s) : \E d \in (a + 2)..(Len(s) - 1) : s[a] = "@" /\ s[d] = "."

LacksAt(s) == \A k \in 1..Len(s) : s[k] # "@"
\* no '.' with a non-space character behind it comes after an '@'
LacksDotSegment(s) ==
  ~\E a \in 1..Len(s) : \E d \in (a + 1)..(Len(s) - 1) :
      s[a] = "@" /\ s[d] = "." /\ ~IsSpace(s[d + 1])

\* the submit went down the success path / was turned away with an error
Accepted(form) ==
  CASE form = "contactForm" -> net' = Append(net, [method |-> "POST", url |-> Endpoint])
    [] OTHER -> alert'.resume = form
Rejected(form) ==
  CASE form = "newsletterForm" ->
         alert' = [msg |-> "Please enter a valid email.", resume |-> Null]
    [] OTHER ->
         /\ alert' = NoAlert /\ net' = net
         /\ ~feedback'[FeedbackOf(form)].hidden
         /\ feedback'[FeedbackOf(form)].text \in {MsgRequired, MsgEmail}

\* C5: with the other required controls filled in, each of the four forms
\* accepts every e-mail text that, trimmed, is non-space characters, '@',
\* non-space characters, '.', non-space characters, and turns away every
\* text that has no '@' or no '.' segment after the '@'.
C5_EmailPattern ==
  [][\A form \in Forms :
        SubmitOf(form) =>
          LET e == Trim(fields[EmailFieldOf(form)])
          IN  /\ EmailShape(e) => Accepted(form)
              /\ (LacksAt(e) \/ LacksDotSegment(e)) => Rejected(form)]_vars

\* an address of the shape was accepted by the contact form
C5_Witness ==
  /\ last.op = "contactSubmit"
  /\ fields["contactForm.email"] = <<"a", "@", "a", ".", "a">>
  /\ Len(net) = 1

\* ------------------------------------------------------------- image claim
\* C3: the error listener assigns an image's src at most once: after the first
\* error the source is the placeholder, and a later error on the same image
\* (the placeholder failing too) assigns nothing more.
C3_ReplacedOnce ==
  \A i \in Images :
     /\ images[i].assigns <= 1
     /\ images[i].assigns = 1 => images[i].src = placeholderSVG

\* ------------------------------------------------------------- modal claim
\* a step of a handler that closes, or goes to close, a modal: a close
\* button, a click on a modal, a keydown, or a booking or checkout submit
\* that reached its closeModal() and alert
CloseOperation ==
  \/ \E d \in Modals \cup {"none"} : ModalCloseClick(d)
  \/ \E m \in Modals, t \in BOOLEAN : ModalClick(m, t)
  \/ \E k \in Keys : KeyDown(k)
  \/ BookingSubmit /\ alert'.resume = "bookingForm"
  \/ CheckoutSubmit /\ alert'.resume = "checkoutForm"

\* C9: a click on a booking or buy trigger whose modal exists and has a
\* descendant matching the focusable selector leaves the modal shown and the
\* focus on that descendant; and no close operation, on an open, a closed or
\* a missing modal, ends in an exception.
C9_OpenFocusesCloseNeverThrows ==
  [][/\ \A m \in Modals :
          ( /\ \/ m = "bookingModal" /\ BookBtnClick
               \/ m = "checkoutModal" /\ \E b \in BuyButtons : BuyBtnClick(b)
            /\ Present(m) /\ Present(Focusable(m)) )
          => focus' = Focusable(m) /\ ~modals'[m].hidden
     /\ CloseOperation => uncaught' = uncaught]_vars

\* what holds of the claim: the focus goes to the first descendant matching
\* the selector when that one can take the focus, and no close operation
\* ends in an exception
C9_FirstMatchFocusedCloseNeverThrows ==
  [][/\ \A m \in Modals :
          ( /\ \/ m = "bookingModal" /\ BookBtnClick
               \/ m = "checkoutModal" /\ \E b \in BuyButtons : BuyBtnClick(b)
            /\ Present(m) /\ Present(Focusable(m)) /\ ~Present(Unfocusable(m)) )
          => focus' = Focusable(m) /\ ~modals'[m].hidden
     /\ CloseOperation => uncaught' = uncaught]_vars

\* ---------------------------------------------------- checkout context claim
\* the product context on the page: the two display fields and the two
\* hidden inputs
CheckoutContext ==
  <<titleText, priceText, fields["checkoutProductInput"], fields["checkoutAmountInput"]>>

\* the context button b stands for: its data attributes, else the h3 and the
\* digits and dots of the span of its product card, else 'Product' and no
\* price
ContextOf(b) ==
  LET n == IF b.dataName # <<>> THEN b.dataName
           ELSE IF b.h3 # <<>> THEN b.h3 ELSE Product
      p == IF b.dataPrice # <<>> THEN b.dataPrice ELSE StripNonNumeric(b.span)
  IN  <<n, IF p # <<>> THEN <<"$">> \o p ELSE <<"--">>, n, p>>

\* a step that closes the open checkout modal: its close button, a click on
\* its backdrop, Escape, or a checkout submit that went through
CheckoutClose ==
  /\ ~modals["checkoutModal"].hidden
  /\ \/ ModalCloseClick("checkoutModal")
     \/ ModalClick("checkoutModal", TRUE)
     \/ KeyDown("Escape")
     \/ CheckoutSubmit /\ alert'.resume = "checkoutForm"

\* C11 as stated: every step that closes the checkout modal leaves the two
\* display fields and the two hidden inputs empty, so that nothing an earlier
\* buy click wrote remains; and every buy click replaces all four with the
\* context of the clicked button.
C11_ContextDiscardedOnClose ==
  [][/\ CheckoutClose => CheckoutContext' = << <<>>, <<>>, <<>>, <<>> >>
     /\ \A b \in BuyButtons : BuyBtnClick(b) => CheckoutContext' = ContextOf(b)]_vars

\* C11 amended: closing the checkout modal (close button, backdrop, Escape,
\* successful submit and the form.reset() after its alert) leaves the display
\* fields and the hidden inputs as the last buy click wrote them; every buy
\* click replaces all four with the context of the clicked button.
C11_ContextKeptUntilNextBuy ==
  [][/\ (CheckoutClose \/ (AlertDismiss /\ alert.resume = "checkoutForm"))
          => CheckoutContext' = CheckoutContext
     /\ \A b \in BuyButtons : BuyBtnClick(b) => CheckoutContext' = ContextOf(b)]_vars

\* the checkout modal, opened for Olive Oil, was closed by its close button
\* and the page still holds Olive Oil at 24.99
C11_Witness ==
  /\ last.op = "modalClose" /\ last.arg = "checkoutModal"
  /\ ~before.modals["checkoutModal"].hidden
  /\ modals["checkoutModal"].hidden
  /\ CheckoutContext = <<OliveOil, <<"$", "2", "4", ".", "9", "9">>, OliveOil,
                         <<"2", "4", ".", "9", "9">> >>

\* ------------------------------------------------------ missing-element claim
\* C12: whichever elements are missing from the page, no event handler ends
\* with an uncaught exception.
C12_NoHandlerThrows == uncaught = {}

\* ------------------------------------------------------------ page-load claim
\* the include's async callback has returned
Settled(i) == boot.includes[i].req = "done"
\* include i was logged by console.error
Logged(i) == \E k \in 1..Len(boot.errors) : boot.errors[k] = i

\* C13: once the DOMContentLoaded handler has started, the fetch of every
\* include element has been issued (none waits for another); initUI is called
\* at most once and only when every include has settled; an include whose
\* fetch rejected or was answered not ok has settled with one console.error
\* entry and its element unfilled, while every other settled include holds
\* its fragment; the settling of one include changes no other include; and
\* once every include has settled, failed or not, initUI does run.
C13_IncludesSettleBeforeInitUI ==
  /\ [](/\ boot.phase # "loading" =>
             \A i \in 1..Len(boot.includes) : boot.includes[i].req # "idle"
        /\ boot.initUI <= 1
        /\ boot.initUI = 1 => \A i \in 1..Len(boot.includes) : Settled(i)
        /\ \A i \in 1..Len(boot.includes) :
             Settled(i) => (boot.includes[i].filled <=> ~Logged(i))
        /\ \A k, l \in 1..Len(boot.errors) : boot.errors[k] = boot.errors[l] => k = l)
  /\ [][\A i \in 1..Len(boot.includes) :
          ((\E o \in {"reject", "notOk", "ok"} : FetchSettle(i, o))
             \/ (\E ok \in BOOLEAN : TextSettle(i, ok)))
          => /\ \A j \in 1..Len(boot.includes) :
                  j # i => boot'.includes[j] = boot.includes[j]
             /\ boot'.initUI = boot.initUI]_vars
  /\ (boot.phase = "includes" /\ \A i \in 1..Len(boot.includes) : Settled(i))
        ~> (boot.initUI = 1)

\* of three includes the first failed and was logged, the other two were
\* injected, and initUI has run once
C13_Witness ==
  /\ boot.phase = "ready" /\ boot.initUI = 1
  /\ Len(boot.includes) = 3
  /\ boot.errors = <<1>>
  /\ ~boot.includes[1].filled
  /\ boot.includes[2].filled /\ boot.includes[3].filled

\* ---------------------------------------------------------- feedback claims
\* the i-th pending callback is the one registered with the message its
\* element shows: no callback for the same element was registered after it
TimerOfShownMessage(i) ==
  \A j \in (i + 1)..Len(timers) : timers[j].el # timers[i].el

\* C14: a feedback element that shows a message is hidden only by the
\* callback registered with that very message (6000 ms after an error, 4000
\* ms after a success), also when an earlier message's callback on the same
\* element is still pending; and that callback does hide it.
C14_VisibleUntilOwnTimer ==
  [][/\ \A el \in FeedbackEls :
          (~feedback[el].hidden /\ feedback'[el].hidden) =>
             \E i \in 1..Len(timers) :
                TimerFire(i) /\ timers[i].el = el /\ TimerOfShownMessage(i)
     /\ \A i \in 1..Len(timers) :
          (TimerFire(i) /\ TimerOfShownMessage(i)) => feedback'[timers[i].el].hidden
     /\ \A i \in 1..Len(timers) :
          TimerOfShownMessage(i) =>
             timers[i].ms = (IF feedback[timers[i].el].color = "text-green-600"
                             THEN SuccessHideMs ELSE ErrorHideMs)]_vars

\* ------------------------------------------------------------ in-flight claim
\* what the contact feedback shows once a POST has ended with outcome o
SettledFeedback(o) ==
  IF o.kind \in {"reject", "notJSON", "jsonNull"}
  THEN [hidden |-> FALSE, text |-> MsgNetwork, color |-> "text-red-500"]
  ELSE IF o.ok = "true" /\ o.success = "true"
  THEN [hidden |-> FALSE, text |-> MsgSent, color |-> "text-green-600"]
  ELSE [hidden |-> FALSE,
        text |-> IF o.message \in {Null, ""} THEN MsgFailed ELSE o.message,
        color |-> "text-red-500"]

\* C15: a valid contact submit issues its POST also while earlier POSTs are
\* outstanding; and whichever outstanding POST settles, first or not, writes
\* the feedback of its own outcome, resets the contact form if and only if it
\* succeeded, and leaves the other POSTs outstanding.
C15_NoInFlightGuard ==
  [][/\ (ContactSubmit /\ ValidContact /\ Trim(fields["contactForm._honey"]) = <<>>)
          => net' = Append(net, [method |-> "POST", url |-> Endpoint])
     /\ Len(net') < Len(net) =>
          \A i \in 1..Len(net) : \A o \in Outcomes :
            ContactSettle(i, o) =>
              /\ Len(net') = Len(net) - 1
              /\ feedback'["contactFeedback"] = SettledFeedback(o)
              /\ fields' = IF o.kind = "object" /\ o.ok = "true" /\ o.success = "true"
                           THEN [f \in FieldIds |->
                                   IF FormOf(f) = "contactForm" THEN <<>> ELSE fields[f]]
                           ELSE fields]_vars

\* two contact POSTs are outstanding, the second submitted while the first
\* had not settled
C15_Witness ==
  /\ Len(net) = 2
  /\ last = [op |-> "contactSubmit", arg |-> "contactForm", twice |-> TRUE]

\* ----------------------------------------------------------------- reset claim
\* the submit of the form fails its checks: a required control empty or
\* blank, the e-mail malformed, or (contact) the honeypot filled
FailsChecks(form) ==
  \/ RequiredEmpty(form)
  \/ ~EmailTest(Trim(fields[EmailFieldOf(form)]))
  \/ form = "contactForm" /\ Trim(fields["contactForm._honey"]) # <<>>

\* the visible controls of the form
ControlsOf(form) ==
  {f \in FieldIds : FormOf(f) = form} \ {"checkoutProductInput", "checkoutAmountInput"}

\* C16: a submit that fails its checks, and a contact POST whose settling
\* shows anything but the success message (a network error, a server
\* failure: an error in red), leave every control as entered and
\* every modal as it was, and raise no success alert; a booking or checkout
\* submit that passes closes its modal and raises the alert with the controls
\* still filled in, and the form is reset when the alert is dismissed (as is
\* the newsletter form after its success alert, and the contact form when
\* its POST succeeds).
C16_ResetOnlyOnSuccess ==
  [][/\ \A form \in Forms :
          SubmitOf(form) =>
            /\ fields' = fields
            /\ IF FailsChecks(form)
               THEN modals' = modals /\ alert'.resume = Null
               ELSE form \in {"bookingForm", "checkoutForm"} =>
                      /\ modals'[ModalOf(form)] = Closed
                      /\ alert'.resume = form
     /\ Len(net') < Len(net) =>
          IF feedback'["contactFeedback"].text = MsgSent
          THEN \A f \in ControlsOf("contactForm") : fields'[f] = <<>>
          ELSE /\ fields' = fields
               /\ feedback'["contactFeedback"].color = "text-red-500"
     /\ AlertDismiss =>
          /\ modals' = modals
          /\ IF alert.resume = Null THEN fields' = fields
             ELSE /\ \A f \in ControlsOf(alert.resume) : fields'[f] = <<>>
                  /\ \A f \in FieldIds \ ControlsOf(alert.resume) : fields'[f] = fields[f]]_vars

\* the booking form, filled in and submitted from its open modal: the modal
\* is closed and the alert is up while the controls still hold the entries
C16_Witness ==
  /\ last.op = "bookingSubmit"
  /\ ~before.modals["bookingModal"].hidden
  /\ modals["bookingModal"] = Closed
  /\ alert.resume = "bookingForm"
  /\ fields["bookingForm.email"] = GoodEmail
  /\ fields["bookingForm.name"] = <<"A", "n", "n">>

\* ------------------------------------------------------------- menu invariant
\* C17: after a click on the menu button or on a link inside the menu,
\* aria-expanded is "true" exactly when the panel is not hidden; and a click
\* on a menu link leaves the panel hidden and aria-expanded "false", whether
\* the menu was open or closed.
C17_AriaExpandedMatchesPanel ==
  [][/\ (MobileMenuBtnClick \/ MobileMenuLinkClick) => MenuConsistent(menu')
     /\ MobileMenuLinkClick => menu' = [hidden |-> TRUE, ariaExpanded |-> "false"]]_vars

\* a link click has closed a menu whose markup had left aria-expanded out
C17_Witness ==
  /\ last.op = "menuLink"
  /\ before.menu = [hidden |-> FALSE, ariaExpanded |-> Null]
  /\ menu = [hidden |-> TRUE, ariaExpanded |-> "false"]

\* ------------------------------------------------------------ modal invariant
\* the hidden class is there exactly when aria-hidden is "true"
ModalConsistent(x) == x.hidden <=> x.ariaHidden = "true"

\* a step in which openModal or closeModal runs on modal m: its trigger, its
\* close button, a click on its backdrop, Escape while it is open, or the
\* submit of its form going through
OpensOrCloses(m) ==
  \/ m = "bookingModal" /\ BookBtnClick
  \/ m = "checkoutModal" /\ \E b \in BuyButtons : BuyBtnClick(b)
  \/ ModalCloseClick(m)
  \/ ModalClick(m, TRUE)
  \/ KeyDown("Escape") /\ ~modals[m].hidden
  \/ m = "bookingModal" /\ BookingSubmit /\ alert'.resume = "bookingForm"
  \/ m = "checkoutModal" /\ CheckoutSubmit /\ alert'.resume = "checkoutForm"

\* C18: every step that opens or closes a modal leaves it with the hidden
\* class exactly when its aria-hidden is "true", and no step makes the two
\* disagree on a modal where they agreed: from the first open or close of a
\* modal on they always agree.
C18_HiddenMatchesAriaHidden ==
  [][\A m \in Modals :
        /\ OpensOrCloses(m) => ModalConsistent(modals'[m])
        /\ ModalConsistent(modals[m]) => ModalConsistent(modals'[m])]_vars

\* the booking modal's markup had the hidden class with aria-hidden "false";
\* the booking submit's closeModal() has put aria-hidden to "true"
C18_Witness ==
  /\ last.op = "bookingSubmit"
  /\ before.modals["bookingModal"] = [hidden |-> TRUE, ariaHidden |-> "false"]
  /\ modals["bookingModal"] = Closed

\* ------------------------------------------------------------ click-close claim
\* C19: a click whose target is the modal container closes that modal and a
\* click on a close button closes the dialog the button sits in, each leaving
\* the other modal's hidden class and aria-hidden alone; a click on any
\* other descendant of a modal, or on a close button outside every dialog,
\* changes no modal.
C19_ClickClosesOnlyItsModal ==
  [][/\ \A m \in Modals :
          (ModalClick(m, TRUE) \/ ModalCloseClick(m)) =>
             /\ modals'[m] = Closed
             /\ \A n \in Modals \ {m} : modals'[n] = modals[n]
     /\ \A m \in Modals : ModalClick(m, FALSE) => modals' = modals
     /\ ModalCloseClick("none") => modals' = modals]_vars

\* with both modals open a click on the booking backdrop has closed the
\* booking modal and left the checkout modal open
C19_Witness ==
  /\ last.op = "backdropClick" /\ last.arg = "bookingModal"
  /\ \A m \in Modals : ~before.modals[m].hidden
  /\ modals["bookingModal"] = Closed
  /\ modals["checkoutModal"] = [hidden |-> FALSE, ariaHidden |-> "false"]

\* ------------------------------------------------------- both-modals claim
\* C20: a click on a booking trigger leaves the checkout modal as it was and
\* a click on a buy button leaves the booking modal as it was, so nothing
\* keeps the two modals from being open together.
C20_OpeningNeverClosesOther ==
  [][/\ BookBtnClick =>
          /\ ~modals'["bookingModal"].hidden
          /\ modals'["checkoutModal"] = modals["checkoutModal"]
     /\ \A b \in BuyButtons : BuyBtnClick(b) =>
          /\ ~modals'["checkoutModal"].hidden
          /\ modals'["bookingModal"] = modals["bookingModal"]]_vars

\* the booking modal was open when a buy button was clicked; both are open
C20_Witness ==
  /\ last.op = "buy"
  /\ ~before.modals["bookingModal"].hidden
  /\ before.modals["checkoutModal"].hidden
  /\ \A m \in Modals : ~modals[m].hidden
====
